---------------------------- MODULE Spec2Model ----------------------------
(***************************************************************************)
(* Model of src/h235/h235crypto.cxx (H323Plus): the ciphertext-stealing    *)
(* codec, the relaxed final-block decode, H235CryptoEngine and H235Session. *)
(*                                                                         *)
(* Byte buffers are sequences of naturals in 0..255.  The OpenSSL cipher   *)
(* context (EVP_CIPHER_CTX) is a record; every EVP_* function is an        *)
(* operator that takes the context and returns the new context together    *)
(* with the bytes it emitted and its return code.  The AES block transform *)
(* is an external primitive; it is modelled by a keyed byte permutation    *)
(* with a true inverse (EncBlock / DecBlock), chained by do_cipher in CBC  *)
(* (or ECB) mode exactly as the EVP cipher's do_cipher does.               *)
(***************************************************************************)
EXTENDS Integers, Sequences, FiniteSets, TLC

VARIABLES eng, call, sess, frame, wire, last, crashed, thr, codec

vars == <<eng, call, sess, frame, wire, last, crashed, thr, codec>>

(***************************************************************************)
(* Program constants                                                       *)
(***************************************************************************)
\* AES block size in bytes (ctx->cipher->block_size of every EVP_aes_*_cbc)
BlockSize == 16
\* const unsigned int IV_SEQUENCE_LEN = 6
IV_SEQUENCE_LEN == 6
\* key.SetSize(16) / (24) / (32) in GenerateRandomKey
KeyLen128 == 16
KeyLen192 == 24
KeyLen256 == 32

OID_AES128 == "2.16.840.1.101.3.4.1.2"
OID_AES192 == "2.16.840.1.101.3.4.1.22"
OID_AES256 == "2.16.840.1.101.3.4.1.42"

SupportedOIDs == {OID_AES128, OID_AES192, OID_AES256}

(***************************************************************************)
(* Bounds of the model                                                     *)
(***************************************************************************)
\* plaintexts span 0 .. MaxBlocks full blocks (plus a partial block)
MaxBlocks == 2
\* IV lengths run from 0 to MaxIvLen
MaxIvLen == 32
\* number of distinct outcomes RAND_bytes may produce for one key
NumRandom == 2

(***************************************************************************)
(* Byte and buffer helpers                                                 *)
(***************************************************************************)
Byte == 0..255

Take(s, n) == SubSeq(s, 1, n)
Drop(s, n) == SubSeq(s, n + 1, Len(s))
Zeros(n) == [i \in 1..n |-> 0]

RECURSIVE XorBits(_, _, _)
XorBits(a, b, n) ==
  IF n = 0 THEN 0
  ELSE (((a % 2) + (b % 2)) % 2) + 2 * XorBits(a \div 2, b \div 2, n - 1)

\* the C operator ^ on two unsigned chars, tabulated once
XorTable == [a \in Byte |-> [b \in Byte |-> XorBits(a, b, 8)]]

Xor(a, b) == XorTable[a][b]

XorSeq(a, b) == [i \in 1..Len(a) |-> Xor(a[i], b[i])]

(***************************************************************************)
(* The block primitive (external AES): a keyed permutation of one block    *)
(***************************************************************************)
KeyLenOf(oid) ==
  IF oid = OID_AES128 THEN KeyLen128
  ELSE IF oid = OID_AES192 THEN KeyLen192
  ELSE KeyLen256

\* round key: every key byte contributes to one position of the block
RoundKey(K) ==
  [i \in 1..BlockSize |->
     (K[i] + (IF i + BlockSize <= Len(K) THEN K[i + BlockSize] ELSE 0)) % 256]

SubByte(x) == (5 * x + 17) % 256
InvSubByte(y) == (205 * (y + 256 - 17)) % 256

EncBlock(K, X) ==
  LET rk == RoundKey(K)
  IN [i \in 1..BlockSize |-> SubByte(Xor(X[(i % BlockSize) + 1], rk[i]))]

\* the position EncBlock moved to position j
Unrotated(j) == ((j + BlockSize - 2) % BlockSize) + 1

DecBlock(K, Y) ==
  LET rk == RoundKey(K)
  IN [j \in 1..BlockSize |->
        Xor(InvSubByte(Y[Unrotated(j)]), rk[Unrotated(j)])]

\* the block b goes out before what the rest of the data, r, yields
Prepend(b, r) == [out |-> b \o r.out, iv |-> r.iv]

RECURSIVE CbcEncrypt(_, _, _)
RECURSIVE CbcEncryptAfter(_, _, _)
\* the blocks after the ciphertext block c, which is their IV
CbcEncryptAfter(K, c, data) == Prepend(c, CbcEncrypt(K, c, data))

\* yields the ciphertext and the IV left in the context (the last
\* ciphertext block)
CbcEncrypt(K, iv, data) ==
  IF Len(data) < BlockSize THEN [out |-> <<>>, iv |-> iv]
  ELSE CbcEncryptAfter(K, EncBlock(K, XorSeq(Take(data, BlockSize), iv)),
                       Drop(data, BlockSize))

RECURSIVE CbcDecrypt(_, _, _)
CbcDecrypt(K, iv, data) ==
  IF Len(data) < BlockSize THEN [out |-> <<>>, iv |-> iv]
  ELSE Prepend(XorSeq(DecBlock(K, Take(data, BlockSize)), iv),
               CbcDecrypt(K, Take(data, BlockSize), Drop(data, BlockSize)))

RECURSIVE EcbCrypt(_, _, _)
EcbCrypt(K, enc, data) ==
  IF Len(data) < BlockSize THEN <<>>
  ELSE (IF enc THEN EncBlock(K, Take(data, BlockSize))
               ELSE DecBlock(K, Take(data, BlockSize)))
       \o EcbCrypt(K, enc, Drop(data, BlockSize))

(***************************************************************************)
(* EVP_CIPHER_CTX                                                          *)
(*   cipher     "none" or the algorithm OID the context is initialised for *)
(*   mode       "CBC" / "ECB" / other (EVP_CIPHER_CTX_mode)                *)
(*   encrypt    direction of do_cipher                                     *)
(*   key        the key schedule                                           *)
(*   iv, oiv    working and original IV                                    *)
(*   buf        ctx->buf[0 .. buf_len-1]                                   *)
(*   final      ctx->final, final_used                                     *)
(*   nopad      ctx->flags & EVP_CIPH_NO_PADDING                           *)
(* A step on a context yields [ctx, out] or [ctx, out, ok]: the context it *)
(* leaves, the bytes it wrote and its return code.                         *)
(***************************************************************************)
\* EVP_CIPHER_CTX_init + EVP_{En,De}cryptInit_ex(ctx, cipher, NULL, key, NULL)
CtxInit(oid, mode, enc, key) ==
  [cipher |-> oid, mode |-> mode, encrypt |-> enc, key |-> key,
   iv |-> Zeros(BlockSize), oiv |-> Zeros(BlockSize),
   buf |-> <<>>, final |-> Zeros(BlockSize), final_used |-> FALSE,
   nopad |-> FALSE]

\* a context that no EVP_CIPHER_CTX_init has touched
CtxRaw ==
  [cipher |-> "none", mode |-> "none", encrypt |-> FALSE, key |-> <<>>,
   iv |-> <<>>, oiv |-> <<>>, buf |-> <<>>, final |-> <<>>,
   final_used |-> FALSE, nopad |-> FALSE]

\* a CBC cipher leaves its last ciphertext block in ctx->iv
Chained(ctx, r) == [ctx |-> [ctx EXCEPT !.iv = r.iv], out |-> r.out]

\* ctx->cipher->do_cipher(ctx, out, in, inl): inl is a multiple of the block size
do_cipher(ctx, in) ==
  IF ctx.mode = "CBC"
  THEN Chained(ctx, IF ctx.encrypt THEN CbcEncrypt(ctx.key, ctx.iv, in)
                                   ELSE CbcDecrypt(ctx.key, ctx.iv, in))
  ELSE [ctx |-> ctx, out |-> EcbCrypt(ctx.key, ctx.encrypt, in)]

\* the IV installed without the reset of buf_len and final_used
CtxSetIV_keepBuf(ctx, enc, iv) ==
  [ctx EXCEPT !.encrypt = enc,
              !.oiv = IF ctx.mode = "CBC" THEN iv ELSE @,
              !.iv = IF ctx.mode = "CBC" THEN iv ELSE @]

\* EVP_{En,De}cryptInit_ex(ctx, NULL, NULL, NULL, iv): installs the IV and
\* resets buf_len and final_used; the direction is set by the function called
CtxSetIV(ctx, enc, iv) ==
  [ctx EXCEPT !.encrypt = enc,
              !.oiv = IF ctx.mode = "CBC" THEN iv ELSE @,
              !.iv = IF ctx.mode = "CBC" THEN iv ELSE @,
              !.buf = <<>>, !.final_used = FALSE]

\* EVP_CIPHER_CTX_set_padding(ctx, pad)
CtxSetPadding(ctx, pad) == [ctx EXCEPT !.nopad = ~pad]

RECURSIVE BitAnd(_, _)
\* the C operator & on two non-negative ints
BitAnd(a, b) ==
  IF a = 0 \/ b = 0 THEN 0
  ELSE ((a % 2) * (b % 2)) + 2 * BitAnd(a \div 2, b \div 2)

\* ctx->block_mask, set by EVP_CipherInit_ex to block_size - 1
block_mask == BlockSize - 1

\* out += n; *outl += n: what step r wrote follows what was written so far
Written(sofar, r) == [ctx |-> r.ctx, out |-> sofar \o r.out]

\* a further do_cipher call, on the context the step r left
ThenCipher(r, in) == Written(r.out, do_cipher(r.ctx, in))

\* a step whose do_cipher call succeeded: return 1
Succeeded(r) == [ctx |-> r.ctx, out |-> r.out, ok |-> TRUE]

(***************************************************************************)
(* Ciphertext stealing: update                                             *)
(***************************************************************************)
\* no pending block is ever flushed
FlushFinal_none(ctx) == [ctx |-> ctx, out |-> <<>>]

\* "encrypt the previous plaintext, if any" (final_used, cleared here, is
\* set again on both paths that follow)
FlushFinal(ctx) ==
  IF ctx.final_used THEN do_cipher(ctx, ctx.final)
                    ELSE [ctx |-> ctx, out |-> <<>>]

\* the last whole block kept without final_used being set
HoldLast_noFlag(r, final, buf) ==
  [ctx |-> [r.ctx EXCEPT !.final = final, !.buf = buf],
   out |-> r.out, ok |-> TRUE]

\* the last whole block is kept in ctx->final and what follows it in
\* ctx->buf; return 1
HoldLast(r, final, buf) ==
  [ctx |-> [r.ctx EXCEPT !.final = final, !.final_used = TRUE, !.buf = buf],
   out |-> r.out, ok |-> TRUE]

EVP_EncryptUpdate_cts(ctx, in) ==
  LET bl == BlockSize
      fill == bl - Len(ctx.buf)
      buf1 == ctx.buf \o Take(in, fill)
      in1 == Drop(in, fill)
      inl1 == Len(in) - fill
      leftover == BitAnd(inl1, block_mask)
      inl2 == IF leftover # 0 THEN inl1 - (bl + leftover)
                              ELSE inl1 - (2 * bl)
      newbuf == IF leftover # 0
                THEN SubSeq(in1, inl2 + bl + 1, inl2 + bl + leftover)
                ELSE SubSeq(in1, inl2 + bl + 1, inl2 + 2 * bl)
      newfinal == SubSeq(in1, inl2 + 1, inl2 + bl)
  IN IF Len(ctx.buf) + Len(in) <= bl
     THEN \* no more than one block buffered: copy and return
          [ctx |-> [ctx EXCEPT !.buf = @ \o in], out |-> <<>>, ok |-> TRUE]
     ELSE IF inl1 <= bl
     THEN HoldLast(FlushFinal(ctx), buf1, in1)
     ELSE HoldLast(ThenCipher(ThenCipher(FlushFinal(ctx), buf1),
                              Take(in1, inl2)),
                   newfinal, newbuf)

EVP_DecryptUpdate_cts(ctx, in) == EVP_EncryptUpdate_cts(ctx, in)

(***************************************************************************)
(* Ciphertext stealing: final.  In the helpers ctx is the context at       *)
(* entry, t the first do_cipher call (on ctx->final, into tmp) and o the   *)
(* second (on the completed ctx->buf, into out).                           *)
(***************************************************************************)
\* memcpy((out + bl), tmp, leftover); *outl += (bl + leftover); return 1
StolenOut(o, tmp, leftover) ==
  [ctx |-> o.ctx, out |-> o.out \o Take(tmp, leftover), ok |-> TRUE]

\* case EVP_CIPH_ECB_MODE: "P_n plus C'", "encrypt => C_{n-1}"
EncryptFinalEcb(ctx, t) ==
  LET leftover == Len(ctx.buf)
  IN StolenOut(do_cipher(t.ctx,
                         ctx.buf \o SubSeq(t.out, leftover + 1, BlockSize)),
               t.out, leftover)

\* the CBC case completing the short block as the ECB case does, with
\* stolen ciphertext instead of zeros
EncryptFinalCbc_steal(ctx, t) == EncryptFinalEcb(ctx, t)

\* case EVP_CIPH_CBC_MODE: "P_n plus 0s", "encrypt => C_{n-1}"
EncryptFinalCbc(ctx, t) ==
  LET leftover == Len(ctx.buf)
  IN StolenOut(do_cipher(t.ctx, ctx.buf \o Zeros(BlockSize - leftover)),
               t.out, leftover)

\* EVP_EncryptFinal_cts without its two tests of the codec state
EVP_EncryptFinal_cts_unchecked(ctx) ==
  EncryptFinalCbc(ctx, do_cipher(ctx, ctx.final))

EVP_EncryptFinal_cts(ctx) ==
  LET fail == [ctx |-> ctx, out |-> <<>>, ok |-> FALSE]
  IN IF ~ctx.final_used THEN fail
     ELSE IF Len(ctx.buf) = 0 THEN fail
     ELSE IF ctx.mode = "ECB"
     THEN EncryptFinalEcb(ctx, do_cipher(ctx, ctx.final))
     ELSE IF ctx.mode = "CBC"
     THEN EncryptFinalCbc(ctx, do_cipher(ctx, ctx.final))
     ELSE fail

\* case EVP_CIPH_ECB_MODE: "C_n plus C'", "decrypt => P_{n-1}"
DecryptFinalEcb(ctx, t) ==
  LET leftover == Len(ctx.buf)
  IN StolenOut(do_cipher(t.ctx,
                         ctx.buf \o SubSeq(t.out, leftover + 1, BlockSize)),
               t.out, leftover)

\* tmp with the XOR against (C_n plus 0s) left out
DecryptFinalTmp_noXorBuf(ctx, t) == XorSeq(t.out, ctx.iv)

\* tmp after the two XOR loops: with C_{n-2} (the IV at entry), then with
\* (C_n plus 0s), which gives "P_n plus C'"
DecryptFinalTmp(ctx, t) ==
  XorSeq(XorSeq(t.out, ctx.iv),
         ctx.buf \o Zeros(BlockSize - Len(ctx.buf)))

\* out XOR'ed with C_{n-1} and with C_{n-2}, then the first leftover bytes
\* of tmp; return 1
UnchainedOut(ctx, o, tmp) ==
  [ctx |-> o.ctx,
   out |-> XorSeq(XorSeq(o.out, ctx.final), ctx.iv)
           \o Take(tmp, Len(ctx.buf)),
   ok |-> TRUE]

\* "C_n plus C' in ctx->buf", "decrypt => P_{n-1}''"
DecryptFinalSecond(ctx, t, tmp) ==
  UnchainedOut(ctx,
               do_cipher(t.ctx,
                         ctx.buf \o SubSeq(tmp, Len(ctx.buf) + 1, BlockSize)),
               tmp)

\* case EVP_CIPH_CBC_MODE
DecryptFinalCbc(ctx, t) ==
  DecryptFinalSecond(ctx, t, DecryptFinalTmp(ctx, t))

\* EVP_DecryptFinal_cts without its two tests of the codec state
EVP_DecryptFinal_cts_unchecked(ctx) ==
  IF ctx.mode = "ECB"
  THEN DecryptFinalEcb(ctx, do_cipher(ctx, ctx.final))
  ELSE IF ctx.mode = "CBC"
  THEN DecryptFinalCbc(ctx, do_cipher(ctx, ctx.final))
  ELSE [ctx |-> ctx, out |-> <<>>, ok |-> FALSE]

EVP_DecryptFinal_cts(ctx) ==
  LET fail == [ctx |-> ctx, out |-> <<>>, ok |-> FALSE]
  IN IF ~ctx.final_used THEN fail
     ELSE IF Len(ctx.buf) = 0 THEN fail
     ELSE IF ctx.mode = "ECB"
     THEN DecryptFinalEcb(ctx, do_cipher(ctx, ctx.final))
     ELSE IF ctx.mode = "CBC"
     THEN DecryptFinalCbc(ctx, do_cipher(ctx, ctx.final))
     ELSE fail

(***************************************************************************)
(* Relaxed final-block decode                                              *)
(***************************************************************************)
\* the bound test of the padding length byte n against the block size b
BadPadLen(n, b) == n = 0 \/ n > b

\* EVP_DecryptFinal_relaxed with the check of the padding byte values (the
\* loop the source comments out) still in place
EVP_DecryptFinal_strict(ctx) ==
  LET b == BlockSize
      fail == [ctx |-> ctx, out |-> <<>>, ok |-> FALSE]
  IN IF ctx.nopad
     THEN IF Len(ctx.buf) # 0 THEN fail
          ELSE [ctx |-> ctx, out |-> <<>>, ok |-> TRUE]
     ELSE IF Len(ctx.buf) # 0 \/ ~ctx.final_used THEN fail
     ELSE LET n == ctx.final[b]
          IN IF BadPadLen(n, b) THEN fail
             ELSE IF \E i \in (b - n + 1)..b : ctx.final[i] # n THEN fail
             ELSE [ctx |-> ctx, out |-> Take(ctx.final, b - n), ok |-> TRUE]

EVP_DecryptFinal_relaxed(ctx) ==
  LET b == BlockSize
      fail == [ctx |-> ctx, out |-> <<>>, ok |-> FALSE]
  IN IF ctx.nopad
     THEN IF Len(ctx.buf) # 0 THEN fail
          ELSE [ctx |-> ctx, out |-> <<>>, ok |-> TRUE]
     ELSE IF b > 1
     THEN IF Len(ctx.buf) # 0 \/ ~ctx.final_used THEN fail
          ELSE LET n == ctx.final[b]
               IN IF BadPadLen(n, b) THEN fail
                  ELSE [ctx |-> ctx, out |-> Take(ctx.final, b - n),
                        ok |-> TRUE]
     ELSE [ctx |-> ctx, out |-> <<>>, ok |-> TRUE]

(***************************************************************************)
(* OpenSSL's own update / final, as called by Encrypt and Decrypt          *)
(***************************************************************************)
\* what is left after the whole blocks stays in ctx->buf; return 1
KeepRest(r, rest) ==
  [ctx |-> [r.ctx EXCEPT !.buf = rest], out |-> r.out, ok |-> TRUE]

EVP_EncryptUpdate(ctx, in) ==
  LET bl == BlockSize
      inl == Len(in)
      i == Len(ctx.buf)
      j == IF i # 0 THEN bl - i ELSE 0
      in1 == Drop(in, j)
      rest == BitAnd(inl - j, bl - 1)
      whole == inl - j - rest
      r0 == IF i # 0 THEN do_cipher(ctx, ctx.buf \o Take(in, j))
                     ELSE [ctx |-> ctx, out |-> <<>>]
  IN IF inl = 0 THEN [ctx |-> ctx, out |-> <<>>, ok |-> TRUE]
     ELSE IF i = 0 /\ BitAnd(inl, block_mask) = 0
     THEN Succeeded(do_cipher(ctx, in))
     ELSE IF i # 0 /\ i + inl < bl
     THEN [ctx |-> [ctx EXCEPT !.buf = @ \o in], out |-> <<>>, ok |-> TRUE]
     ELSE KeepRest(IF whole > 0 THEN ThenCipher(r0, Take(in1, whole))
                                ELSE r0,
                   Drop(in1, whole))

EVP_EncryptFinal_ex(ctx) ==
  LET b == BlockSize
      bl == Len(ctx.buf)
      n == b - bl
  IN IF ctx.nopad
     THEN IF bl # 0 THEN [ctx |-> ctx, out |-> <<>>, ok |-> FALSE]
          ELSE [ctx |-> ctx, out |-> <<>>, ok |-> TRUE]
     ELSE Succeeded(do_cipher(ctx, ctx.buf \o [k \in 1..n |-> n]))

\* with padding on, the last block is held back in ctx->final when the data
\* ends on a block boundary, and the block held back before goes out first
HoldBack(ctx, r) ==
  LET b == BlockSize
      held == IF ctx.final_used THEN ctx.final ELSE <<>>
      keep == b > 1 /\ Len(r.ctx.buf) = 0
      outl == IF keep THEN Len(r.out) - b ELSE Len(r.out)
  IN [ctx |-> [r.ctx EXCEPT !.final_used = keep,
                            !.final = IF keep THEN Drop(r.out, outl) ELSE @],
      out |-> held \o Take(r.out, outl), ok |-> TRUE]

EVP_DecryptUpdate(ctx, in) ==
  IF Len(in) = 0 THEN [ctx |-> ctx, out |-> <<>>, ok |-> TRUE]
  ELSE IF ctx.nopad THEN EVP_EncryptUpdate(ctx, in)
  ELSE HoldBack(ctx, EVP_EncryptUpdate(ctx, in))

(***************************************************************************)
(* H235CryptoEngine: [oid, enc (m_encryptCtx), dec (m_decryptCtx)]         *)
(***************************************************************************)
\* "no ivSequence" (a NULL pointer)
NoSeq == <<>>

\* H235CryptoEngine(algorithmOID): the contexts are left untouched
NewEngine(oid) == [oid |-> oid, enc |-> CtxRaw, dec |-> CtxRaw]

Keyed(e) == e.enc.cipher # "none" /\ e.dec.cipher # "none"

\* SetKey(key): 'beyond' stands for the bytes that follow the key buffer in
\* memory, which the cipher's key setup reads when the buffer is shorter than
\* the algorithm's key
SetKey(e, key, beyond) ==
  IF e.oid \in SupportedOIDs
  THEN LET ks == Take(key \o beyond, KeyLenOf(e.oid))
       IN [e EXCEPT !.enc = CtxInit(e.oid, "CBC", TRUE, ks),
                    !.dec = CtxInit(e.oid, "CBC", FALSE, ks)]
  ELSE e

\* SetIV without the copy of the partial ivSequence at the end
SetIV_noPartial(ivSequence, ivLen) ==
  IF ivSequence # NoSeq
  THEN [i \in 1..ivLen |->
          IF i <= (ivLen \div IV_SEQUENCE_LEN) * IV_SEQUENCE_LEN
          THEN ivSequence[((i - 1) % IV_SEQUENCE_LEN) + 1]
          ELSE 0]
  ELSE Zeros(ivLen)

\* SetIV(iv, ivSequence, ivLen)
SetIV(ivSequence, ivLen) ==
  IF ivSequence # NoSeq
  THEN [i \in 1..ivLen |->
          IF i <= (ivLen \div IV_SEQUENCE_LEN) * IV_SEQUENCE_LEN
          THEN ivSequence[((i - 1) % IV_SEQUENCE_LEN) + 1]
          ELSE ivSequence[i - (ivLen - (ivLen % IV_SEQUENCE_LEN))]]
  ELSE Zeros(ivLen)

\* the comparison written with <= instead of <
NeedsRtpPadding_le(len) == len <= BlockSize

\* rtpPadding = (data.GetSize() < EVP_CIPHER_CTX_block_size(&m_encryptCtx))
NeedsRtpPadding(len) == len < BlockSize

\* the test that selects the ciphertext-stealing path
UseCts(len, rtpPadding) == ~rtpPadding /\ (len % BlockSize) > 0

\* what Encrypt leaves and returns after the update step u and the final
\* step f: a step that fails is logged, nothing else
EncryptReturn(e, rtpPadding, u, f) ==
  [eng |-> [e EXCEPT !.enc = f.ctx], out |-> u.out \o f.out,
   rtpPadding |-> rtpPadding, updOk |-> u.ok, finOk |-> f.ok]

\* the final step of Encrypt, on the context the update step u left
EncryptFinal(e, cts, rtpPadding, u) ==
  EncryptReturn(e, rtpPadding, u,
                IF cts THEN EVP_EncryptFinal_cts(u.ctx)
                       ELSE EVP_EncryptFinal_ex(u.ctx))

\* Encrypt(data, ivSequence, rtpPadding) on a keyed engine
Encrypt(e, data, ivSequence) ==
  LET rtpPadding == NeedsRtpPadding(Len(data))
      cts == UseCts(Len(data), rtpPadding)
      c1 == CtxSetPadding(
              CtxSetIV(e.enc, TRUE, SetIV(ivSequence, BlockSize)), rtpPadding)
  IN EncryptFinal(e, cts, rtpPadding,
                  IF cts THEN EVP_EncryptUpdate_cts(c1, data)
                         ELSE EVP_EncryptUpdate(c1, data))

\* what Decrypt leaves and returns after the update step u and the final
\* step f: a step that fails is logged, nothing else
DecryptReturn(e, rtpPadding, u, f) ==
  [eng |-> [e EXCEPT !.dec = f.ctx], out |-> u.out \o f.out,
   rtpPadding |-> rtpPadding, updOk |-> u.ok, finOk |-> f.ok]

\* the final step of Decrypt, on the context the update step u left
DecryptFinal(e, cts, rtpPadding, u) ==
  DecryptReturn(e, rtpPadding, u,
                IF cts THEN EVP_DecryptFinal_cts(u.ctx)
                       ELSE EVP_DecryptFinal_relaxed(u.ctx))

\* Decrypt(data, ivSequence, rtpPadding) on a keyed engine
Decrypt(e, data, ivSequence, rtpPadding) ==
  LET cts == UseCts(Len(data), rtpPadding)
      c1 == CtxSetPadding(
              CtxSetIV(e.dec, FALSE, SetIV(ivSequence, BlockSize)), rtpPadding)
  IN DecryptFinal(e, cts, rtpPadding,
                  IF cts THEN EVP_DecryptUpdate_cts(c1, data)
                         ELSE EVP_DecryptUpdate(c1, data))

\* the size GenerateRandomKey(algorithmOID) gives the key
RandomKeySize(oid) ==
  IF oid = OID_AES128 THEN KeyLen128
  ELSE IF oid = OID_AES192 THEN KeyLen192
  ELSE IF oid = OID_AES256 THEN KeyLen256
  ELSE 0

(***************************************************************************)
(* Inputs                                                                  *)
(***************************************************************************)
\* a buffer of len bytes: a, a+m, a+2m, ... (mod 256)
Pattern(len, a, m) == [i \in 1..len |-> (a + m * (i - 1)) % 256]

\* outcome r of RAND_bytes for a key of n bytes
RandBytes(n, r) == Pattern(n, 16 * r + 1, 2 * r + 1)

\* plaintext lengths: below one block, whole blocks, whole blocks plus a rest
Lengths == {k * BlockSize + d : k \in 0..MaxBlocks, d \in {0, 1, 8, BlockSize - 1}}

Plaintexts == {Pattern(l, 3, 7) : l \in Lengths}

IvSequences == {NoSeq, <<0, 1, 170, 187, 204, 221>>}

\* what a peer puts in clear before CBC-encrypting with padding of its own
\* making: whole blocks whose last byte n is the padding length byte and whose
\* other bytes are whatever the peer left there
PadLengthBytes == {0, 2, BlockSize - 1, BlockSize, BlockSize + 1}

PeerBlocks ==
  {Pattern(k * BlockSize - 1, 3, 7) \o <<n>> :
     k \in 1..MaxBlocks, n \in PadLengthBytes}

\* the key of the engine under test
EngineKey(oid) == Pattern(KeyLenOf(oid), 160, 3)

NoCall ==
  [op |-> "none", data |-> <<>>, seq |-> NoSeq, flagIn |-> FALSE,
   out |-> <<>>, flagOut |-> FALSE, updOk |-> TRUE, finOk |-> TRUE,
   err |-> "none", plain |-> <<>>, ivLen |-> 0]

(***************************************************************************)
(* Specification SpecEngine: one H235CryptoEngine, constructed with a key, *)
(* on which Encrypt and Decrypt are called again and again with one        *)
(* sequence value.                                                         *)
(*   call  the last call: its arguments, what it returned, the return      *)
(*         codes of the update and final steps (which the code only logs), *)
(*         the error it reported to its caller (the functions have no      *)
(*         error result: always "none") and, for a Decrypt, the clear      *)
(*         bytes the ciphertext was made from                              *)
(***************************************************************************)
\* no frame in hand (frame.orig keeps the payload the frame started with,
\* frame.hist the calls made on it)
NoFrame ==
  [payload |-> <<>>, padding |-> FALSE, orig |-> <<>>, hist |-> <<>>]

\* no session call made yet
NoOp == [ret |-> "none", stepsOk |-> TRUE]

InitEngine ==
  /\ \E oid \in SupportedOIDs :
       eng = SetKey(NewEngine(oid), EngineKey(oid), <<>>)
  /\ \E s \in IvSequences : call = [NoCall EXCEPT !.seq = s]
  /\ sess = <<>>
  /\ frame = NoFrame
  /\ wire = <<>>
  /\ last = NoOp
  /\ crashed = FALSE
  /\ thr = <<>>
  /\ codec = <<>>

\* the engine after a call that returned r, and the record of the call
Called(op, data, flagIn, plain, r) ==
  /\ eng' = r.eng
  /\ call' = [op |-> op, data |-> data, seq |-> call.seq, flagIn |-> flagIn,
              out |-> r.out, flagOut |-> r.rtpPadding, updOk |-> r.updOk,
              finOk |-> r.finOk, err |-> "none", plain |-> plain,
              ivLen |-> BlockSize]

EncryptCall ==
  /\ call.op # "Encrypt"
  /\ \E P \in Plaintexts :
       Called("Encrypt", P, FALSE, P, Encrypt(eng, P, call.seq))
  /\ UNCHANGED <<sess, frame, wire, last, crashed, thr, codec>>

\* decrypt what the last Encrypt returned, with the flag it reported
DecryptCall ==
  /\ call.op = "Encrypt"
  /\ Called("Decrypt", call.out, call.flagOut, call.plain,
            Decrypt(eng, call.out, call.seq, call.flagOut))
  /\ UNCHANGED <<sess, frame, wire, last, crashed, thr, codec>>

\* decrypt, with the padding flag set, what a peer made by CBC-encrypting
\* whole blocks that end in a padding of its own making
DecryptPeer(Q, C) ==
  Called("DecryptPeer", C, TRUE, Q, Decrypt(eng, C, call.seq, TRUE))

DecryptPeerCall ==
  /\ call.op # "Encrypt"
  /\ \E Q \in PeerBlocks :
       DecryptPeer(Q, CbcEncrypt(eng.dec.key, SetIV(call.seq, BlockSize),
                                 Q).out)
  /\ UNCHANGED <<sess, frame, wire, last, crashed, thr, codec>>

NextEngine == EncryptCall \/ DecryptCall \/ DecryptPeerCall

SpecEngine == InitEngine /\ [][NextEngine]_vars

(***************************************************************************)
(* H235Session                                                             *)
(***************************************************************************)
\* one master/slave pair: the master generates the media key, sends it and
\* writes the frames; the slave receives the key and reads the frames
Sessions == {"master", "slave"}

\* what m_dh.ComputeSessionKey yields: both ends hold the same DH secret
DhSecret == Pattern(KeyLen256, 90, 11)

\* what may follow a short key buffer in memory
BeyondBytes == {Zeros(KeyLen256), Pattern(KeyLen256, 200, 5)}

\* what a call into a context no EVP_CIPHER_CTX_init has touched may return
\* when it returns at all
UnkeyedOutputs == {Pattern(BlockSize, 222, 1)}

\* H235Session(caps, oidAlgorithm)
NewSession(oid) ==
  [m_context |-> NewEngine(oid), m_dhcontext |-> NewEngine(oid),
   m_isInitialised |-> FALSE, m_isMaster |-> FALSE,
   m_dhSessionkey |-> <<>>, m_crytoMasterKey |-> <<>>, destroyed |-> FALSE]

IsInitialised(s) == sess[s].m_isInitialised

IsActive(s) == ~IsInitialised(s)

\* the payload lengths of the frames handed to WriteFrame
FrameLengths == {BlockSize - 1, BlockSize, BlockSize + 1}

FramePayloads == {Pattern(l, 3, 7) : l \in FrameLengths}

Init ==
  /\ \E oid \in SupportedOIDs : sess = [s \in Sessions |-> NewSession(oid)]
  /\ frame = NoFrame
  /\ wire = <<>>
  /\ last = NoOp
  /\ crashed = FALSE
  /\ thr = <<>>
  /\ codec = <<>>
  /\ eng = NewEngine(OID_AES128)
  /\ call = NoCall

\* what a call leaves for its caller: the result it reports (the functions
\* return true or nothing: "ok") and, known to the log only, whether the
\* cipher's update and final steps succeeded
Done(stepsOk) == [ret |-> "ok", stepsOk |-> stepsOk]

CreateSession(s, isMaster) ==
  /\ ~crashed
  /\ \E r \in 1..NumRandom :
       LET dhc == SetKey(sess[s].m_dhcontext, DhSecret, <<>>)
           key == RandBytes(RandomKeySize(sess[s].m_context.oid), r)
       IN sess' = [sess EXCEPT
                     ![s].m_isMaster = isMaster,
                     ![s].m_isInitialised = TRUE,
                     ![s].m_dhSessionkey = DhSecret,
                     ![s].m_dhcontext = dhc,
                     ![s].m_crytoMasterKey = IF isMaster THEN key ELSE @,
                     ![s].m_context =
                        IF isMaster THEN SetKey(@, key, <<>>) ELSE @]
  /\ last' = Done(TRUE)
  /\ UNCHANGED <<frame, wire, crashed, eng, call, thr, codec>>

\* m_dhcontext.Encrypt returned r: its buffer is what EncodeMediaKey returns
Encoded(s, r) ==
  /\ sess' = [sess EXCEPT ![s].m_dhcontext = r.eng]
  /\ wire' = r.out
  /\ last' = Done(r.updOk /\ r.finOk)
  /\ UNCHANGED crashed

EncodeMediaKey(s) ==
  /\ ~crashed
  /\ IF Keyed(sess[s].m_dhcontext)
     THEN Encoded(s, Encrypt(sess[s].m_dhcontext, sess[s].m_crytoMasterKey,
                             NoSeq))
     ELSE \* the context was never initialised: anything may happen
          \/ crashed' = TRUE /\ UNCHANGED <<sess, wire, last>>
          \/ \E g \in UnkeyedOutputs :
               wire' = g /\ last' = Done(TRUE) /\ UNCHANGED <<sess, crashed>>
  /\ UNCHANGED <<frame, eng, call, thr, codec>>

\* the bytes a session may receive: what the peer sent, or its first bytes
Received ==
  {wire, Take(wire, IF Len(wire) < BlockSize \div 2 THEN Len(wire)
                    ELSE BlockSize \div 2)}

\* m_dhcontext.Decrypt returned r: its buffer becomes the media key and
\* the key of m_context, whatever its length
Decoded(s, r) ==
  /\ \E beyond \in IF Len(r.out) < KeyLenOf(sess[s].m_context.oid)
                    THEN BeyondBytes ELSE {<<>>} :
       sess' = [sess EXCEPT ![s].m_dhcontext = r.eng,
                            ![s].m_crytoMasterKey = r.out,
                            ![s].m_context = SetKey(@, r.out, beyond)]
  /\ last' = Done(r.updOk /\ r.finOk)
  /\ UNCHANGED crashed

DecodeMediaKey(s, key) ==
  /\ ~crashed
  /\ IF Keyed(sess[s].m_dhcontext)
     THEN Decoded(s, Decrypt(sess[s].m_dhcontext, key, NoSeq, FALSE))
     ELSE \/ crashed' = TRUE /\ UNCHANGED <<sess, last>>
          \/ \E g \in UnkeyedOutputs, beyond \in BeyondBytes :
               /\ sess' = [sess EXCEPT
                             ![s].m_crytoMasterKey = g,
                             ![s].m_context = SetKey(@, g, beyond)]
               /\ last' = Done(TRUE)
               /\ UNCHANGED crashed
  /\ UNCHANGED <<frame, wire, eng, call, thr, codec>>

\* frame.SetPayloadSize + memmove of the buffer m_context returned in r;
\* the flag r.rtpPadding goes nowhere
Framed(s, op, r) ==
  /\ sess' = [sess EXCEPT ![s].m_context = r.eng]
  /\ frame' = [frame EXCEPT !.payload = r.out, !.hist = Append(@, op)]
  /\ last' = Done(r.updOk /\ r.finOk)
  /\ UNCHANGED crashed

WriteFrame(s) ==
  /\ ~crashed
  /\ frame.orig # <<>> /\ frame.hist = <<>>
  /\ IF Keyed(sess[s].m_context)
     THEN Framed(s, "WriteFrame",
                 Encrypt(sess[s].m_context, frame.payload, NoSeq))
     ELSE \/ crashed' = TRUE /\ UNCHANGED <<sess, frame, last>>
          \/ \E g \in UnkeyedOutputs :
               /\ frame' = [frame EXCEPT !.payload = g,
                              !.hist = Append(@, "WriteFrame")]
               /\ last' = Done(TRUE)
               /\ UNCHANGED <<sess, crashed>>
  /\ UNCHANGED <<wire, eng, call, thr, codec>>

ReadFrame(s) ==
  /\ ~crashed
  /\ frame.hist = <<"WriteFrame">>
  /\ IF Keyed(sess[s].m_context)
     THEN Framed(s, "ReadFrame",
                 Decrypt(sess[s].m_context, frame.payload, NoSeq,
                         frame.padding))
     ELSE \/ crashed' = TRUE /\ UNCHANGED <<sess, frame, last>>
          \/ \E g \in UnkeyedOutputs :
               /\ frame' = [frame EXCEPT !.payload = g,
                              !.hist = Append(@, "ReadFrame")]
               /\ last' = Done(TRUE)
               /\ UNCHANGED <<sess, crashed>>
  /\ UNCHANGED <<wire, eng, call, thr, codec>>

\* Spec: the key transport between the two sessions
Next ==
  \/ CreateSession("master", TRUE)
  \/ CreateSession("slave", FALSE)
  \/ EncodeMediaKey("master")
  \/ \E key \in Received : DecodeMediaKey("slave", key)

\* SpecFrames: the key transport over a channel that delivers what was sent,
\* and the frames
NextFrames ==
  \/ CreateSession("master", TRUE)
  \/ CreateSession("slave", FALSE)
  \/ EncodeMediaKey("master")
  \/ DecodeMediaKey("slave", wire)
  \/ WriteFrame("master")
  \/ ReadFrame("slave")

\* the sender holds one frame: its payload and padding flag (frame.orig
\* keeps the payload it started with, frame.hist the calls made on it)
InitFrames ==
  /\ \E oid \in SupportedOIDs : sess = [s \in Sessions |-> NewSession(oid)]
  /\ \E P \in FramePayloads, pad \in BOOLEAN :
       frame = [payload |-> P, padding |-> pad, orig |-> P, hist |-> <<>>]
  /\ wire = <<>>
  /\ last = NoOp
  /\ crashed = FALSE
  /\ thr = <<>>
  /\ codec = <<>>
  /\ eng = NewEngine(OID_AES128)
  /\ call = NoCall

SpecFrames == InitFrames /\ [][NextFrames]_vars

Spec == Init /\ [][Next]_vars

(***************************************************************************)
(* Properties of the engine (checked under SpecEngine)                     *)
(***************************************************************************)
\* the padding length byte the final step of the last Decrypt looked at
PadLenByte == eng.dec.final[BlockSize]

\* C1: round trip. Decrypt, given what Encrypt returned for a plaintext P of
\* length >= 1, the same sequence value and the rtpPadding flag Encrypt
\* reported, returns exactly P.
C1_RoundTrip ==
  (call.op = "Decrypt" /\ Len(call.plain) >= 1) => call.out = call.plain

\* a round trip through the ciphertext-stealing path, more than two blocks
C1_Witness ==
  /\ call.op = "Decrypt"
  /\ Len(call.plain) > 2 * BlockSize
  /\ Len(call.plain) % BlockSize # 0
  /\ call.out = call.plain

\* C2: Encrypt reports rtpPadding exactly when the plaintext is shorter than
\* one block and then returns one block; otherwise it returns exactly as many
\* bytes as it was given.
C2_EncryptLength ==
  call.op = "Encrypt" =>
    LET L == Len(call.data)
    IN /\ call.flagOut = (L < BlockSize)
       /\ Len(call.out) = IF L < BlockSize THEN BlockSize ELSE L

\* an Encrypt of more than one block, not block-aligned, with no expansion
C2_Witness ==
  /\ call.op = "Encrypt"
  /\ Len(call.data) > BlockSize
  /\ Len(call.data) % BlockSize # 0
  /\ ~call.flagOut
  /\ Len(call.out) = Len(call.data)

\* C9: bad padding rejection. A Decrypt with the padding flag set whose
\* decrypted final block ends in a length byte of 0 or more than the block
\* size reports BadPadding and returns no buffer.
C9_BadPaddingRejected ==
  (call.op = "DecryptPeer" /\ BadPadLen(PadLenByte, BlockSize)) =>
    (call.err = "BadPadding" /\ call.out = <<>>)

\* C10: relaxed padding tolerance. A Decrypt with the padding flag set on
\* block-aligned ciphertext of T bytes whose decrypted final block ends in a
\* length byte n in 1..BlockSize succeeds, whatever the other padding bytes
\* are, and returns the first T - n decrypted bytes.
C10_RelaxedPadding ==
  (call.op = "DecryptPeer" /\ PadLenByte \in 1..BlockSize) =>
    /\ call.updOk /\ call.finOk
    /\ call.out = Take(call.plain, Len(call.data) - PadLenByte)

\* a length byte of 2 over a padding byte that is not 2, two blocks
C10_Witness ==
  /\ call.op = "DecryptPeer"
  /\ Len(call.data) = 2 * BlockSize
  /\ PadLenByte = 2
  /\ call.plain[Len(call.plain) - 1] # 2
  /\ Len(call.out) = Len(call.data) - 2

(***************************************************************************)
(* Properties of the session (checked under Spec and SpecFrames)           *)
(***************************************************************************)
\* the bytes master.EncodeMediaKey() returns for the key the master holds
MasterEncoded ==
  Encrypt(sess["master"].m_dhcontext, sess["master"].m_crytoMasterKey,
          NoSeq).out

\* C3: key-transport handshake. When both sessions have run CreateSession
\* with the same DH secret, slave.DecodeMediaKey(master.EncodeMediaKey())
\* leaves the slave's stored media key, and the key of the slave's media-key
\* engine, equal to the master's media key.
C3_Handshake ==
  [][(/\ IsInitialised("master") /\ IsInitialised("slave")
      /\ wire = MasterEncoded
      /\ DecodeMediaKey("slave", wire))
     => /\ sess'["slave"].m_crytoMasterKey = sess["master"].m_crytoMasterKey
        /\ sess'["slave"].m_context.enc.key = sess["master"].m_crytoMasterKey
        /\ sess'["slave"].m_context.dec.key = sess["master"].m_crytoMasterKey
    ]_vars

\* the slave holds the master's AES-192 key, received through the
\* ciphertext-stealing path of its transport-key engine
C3_Witness ==
  /\ IsInitialised("master") /\ IsInitialised("slave")
  /\ wire = MasterEncoded
  /\ Len(sess["master"].m_crytoMasterKey) = KeyLen192
  /\ sess["slave"].m_crytoMasterKey = sess["master"].m_crytoMasterKey
  /\ sess["slave"].m_context.dec.key = sess["master"].m_crytoMasterKey
  /\ sess["slave"].m_dhcontext.dec.buf # <<>>

\* C4: frame round trip. With both sessions holding the same media key,
\* slave.ReadFrame on the frame master.WriteFrame produced leaves the frame
\* with the original payload, whatever the frame's padding flag was.
C4_FrameRoundTrip ==
  [][(/\ Keyed(sess["master"].m_context) /\ Keyed(sess["slave"].m_context)
      /\ sess["slave"].m_crytoMasterKey = sess["master"].m_crytoMasterKey
      /\ sess["slave"].m_context.dec.key = sess["master"].m_context.enc.key
      /\ frame.hist = <<"WriteFrame">>
      /\ frame.payload =
           Encrypt(sess["master"].m_context, frame.orig, NoSeq).out
      /\ ReadFrame("slave"))
     => frame'.payload = frame.orig
    ]_vars

\* C5: session state machine. Once CreateSession has run the session reports
\* itself initialised and active, and before that it reports itself not
\* active.
C5_StateQueries ==
  \A s \in Sessions :
    /\ sess[s].m_isInitialised => (IsInitialised(s) /\ IsActive(s))
    /\ ~sess[s].m_isInitialised => ~IsActive(s)

\* C6: CreateSession takes effect once. A CreateSession call on a session
\* that is already initialised is rejected with AlreadyInitialised and
\* changes neither the master flag, nor the transport key, nor the media key.
C6_CreateOnce ==
  [][\A s \in Sessions :
       (IsInitialised(s) /\ \E m \in BOOLEAN : CreateSession(s, m))
       => /\ last'.ret = "AlreadyInitialised"
          /\ sess'[s].m_isMaster = sess[s].m_isMaster
          /\ sess'[s].m_dhSessionkey = sess[s].m_dhSessionkey
          /\ sess'[s].m_crytoMasterKey = sess[s].m_crytoMasterKey
    ]_vars

\* C7: EncodeMediaKey requires the Active state. Called before CreateSession
\* it fails with NotInitialised, returns no ciphertext, and does not run the
\* transport-key engine (whose context nothing has initialised yet).
C7_EncodeNeedsActive ==
  [][(~IsInitialised("master") /\ EncodeMediaKey("master"))
     => /\ last'.ret = "NotInitialised"
        /\ wire' = wire
        /\ ~crashed'
    ]_vars

\* the decryption of the received bytes fails: a cipher step fails, or what
\* comes out is not a key of the algorithm's length
Failed(r) ==
  \/ ~(r.updOk /\ r.finOk)
  \/ Len(r.out) # KeyLenOf(sess["slave"].m_context.oid)

DecodeFails(key) ==
  Failed(Decrypt(sess["slave"].m_dhcontext, key, NoSeq, FALSE))

\* C8: DecodeMediaKey propagates cipher failure. When the decryption of the
\* received bytes fails, DecodeMediaKey reports KeyTransportFailed and
\* installs nothing as the media key or as the media-key engine's key.
C8_DecodeFailure ==
  [][\A key \in Received :
       (/\ Keyed(sess["slave"].m_dhcontext)
        /\ DecodeFails(key)
        /\ DecodeMediaKey("slave", key))
       => /\ last'.ret = "KeyTransportFailed"
          /\ sess'["slave"].m_crytoMasterKey = sess["slave"].m_crytoMasterKey
          /\ sess'["slave"].m_context = sess["slave"].m_context
    ]_vars

(***************************************************************************)
(* Specification SpecTeardown: the key transport, and the sessions'        *)
(* destruction.                                                            *)
(***************************************************************************)
\* EVP_CIPHER_CTX_cleanup on an initialised context: the key schedule is
\* cleansed and the whole structure set to zero
EVP_CIPHER_CTX_cleanup(ctx) ==
  [cipher |-> "none", mode |-> "none", encrypt |-> FALSE,
   key |-> Zeros(Len(ctx.key)), iv |-> Zeros(Len(ctx.iv)),
   oiv |-> Zeros(Len(ctx.oiv)), buf |-> <<>>,
   final |-> Zeros(Len(ctx.final)), final_used |-> FALSE, nopad |-> FALSE]

\* ~H235CryptoEngine on an engine whose contexts SetKey has initialised
DestroyEngine(e) ==
  [e EXCEPT !.enc = EVP_CIPHER_CTX_cleanup(@),
            !.dec = EVP_CIPHER_CTX_cleanup(@)]

\* ~H235Session: the body is empty; the members are destroyed.  The two
\* engines run ~H235CryptoEngine (on contexts nothing has initialised the
\* cleanup reads garbage: it may crash, or find nothing to do).  The two
\* byte arrays give their storage back as it is: nothing overwrites it.
DestroySession(s) ==
  /\ ~crashed
  /\ ~sess[s].destroyed
  /\ \/ /\ sess' = [sess EXCEPT
                      ![s].destroyed = TRUE,
                      ![s].m_context =
                         IF Keyed(@) THEN DestroyEngine(@) ELSE @,
                      ![s].m_dhcontext =
                         IF Keyed(@) THEN DestroyEngine(@) ELSE @]
        /\ UNCHANGED crashed
     \/ /\ ~Keyed(sess[s].m_context) \/ ~Keyed(sess[s].m_dhcontext)
        /\ crashed' = TRUE
        /\ UNCHANGED sess
  /\ UNCHANGED <<frame, wire, last, eng, call, thr, codec>>

\* a destroyed session is not used again
NextTeardown ==
  \/ ~sess["master"].destroyed /\ CreateSession("master", TRUE)
  \/ ~sess["slave"].destroyed /\ CreateSession("slave", FALSE)
  \/ ~sess["master"].destroyed /\ EncodeMediaKey("master")
  \/ ~sess["slave"].destroyed /\ DecodeMediaKey("slave", wire)
  \/ DestroySession("master")
  \/ DestroySession("slave")

SpecTeardown == Init /\ [][NextTeardown]_vars

AllZero(bytes) == \A i \in 1..Len(bytes) : bytes[i] = 0

Threads == {1, 2}

FrameOps == {"WriteFrame", "ReadFrame"}

\* the context a call works on: WriteFrame calls Encrypt (m_encryptCtx),
\* ReadFrame calls Decrypt (m_decryptCtx)
CtxOf_shared(e, op) == e.enc

CtxOf(e, op) == IF op = "WriteFrame" THEN e.enc ELSE e.dec

WithCtx(e, op, ctx) ==
  IF op = "WriteFrame" THEN [e EXCEPT !.enc = ctx] ELSE [e EXCEPT !.dec = ctx]

\* the other thread
Other(t) == CHOOSE u \in Threads : u # t

UnderWay(t) == thr[t].pc \in {"SetPadding", "Update", "Final"}

\* thread t moves on to the step 'pc'
Goes(t, pc) ==
  [thr EXCEPT ![t].pc = pc,
              ![t].overlapped = @ \/ UnderWay(Other(t))]

\* the engine a thread finds, keyed by the constructor
KeyedEngine(oid) == SetKey(NewEngine(oid), EngineKey(oid), <<>>)

\* what a frame holds when a call starts: WriteFrame is given a clear
\* payload, ReadFrame what a sender's Encrypt made of one, with its flag
FrameFor(oid, op, P) ==
  IF op = "WriteFrame"
  THEN [data |-> P, flag |-> FALSE]
  ELSE [data |-> Encrypt(KeyedEngine(oid), P, NoSeq).out,
        flag |-> NeedsRtpPadding(Len(P))]

NewThread(op, fr) ==
  [op |-> op, data |-> fr.data, flag |-> fr.flag, pc |-> "SetIV",
   out |-> <<>>, updOk |-> TRUE, finOk |-> TRUE, overlapped |-> FALSE]

InitThreads ==
  /\ eng = KeyedEngine(OID_AES128)
  /\ \E ops \in [Threads -> FrameOps], Ps \in [Threads -> FramePayloads] :
       thr = [t \in Threads |->
                NewThread(ops[t], FrameFor(OID_AES128, ops[t], Ps[t]))]
  /\ call = NoCall
  /\ sess = <<>>
  /\ frame = NoFrame
  /\ wire = <<>>
  /\ last = NoOp
  /\ crashed = FALSE
  /\ codec = <<>>

\* SetIV(iv, NULL, ...); EVP_EncryptInit_ex / EVP_DecryptInit_ex(ctx, .., iv)
StepSetIV(t) ==
  /\ thr[t].pc = "SetIV"
  /\ eng' = WithCtx(eng, thr[t].op,
                    CtxSetIV(CtxOf(eng, thr[t].op), thr[t].op = "WriteFrame",
                             SetIV(NoSeq, BlockSize)))
  /\ thr' = Goes(t, "SetPadding")
  /\ UNCHANGED <<call, sess, frame, wire, last, crashed, codec>>

\* Encrypt sets rtpPadding from the size of the data, Decrypt is given it;
\* EVP_CIPHER_CTX_set_padding(ctx, rtpPadding ? 1 : 0)
PaddingSet(t, rtpPadding) ==
  /\ eng' = WithCtx(eng, thr[t].op,
                    CtxSetPadding(CtxOf(eng, thr[t].op), rtpPadding))
  /\ thr' = [Goes(t, "Update") EXCEPT ![t].flag = rtpPadding]

StepSetPadding(t) ==
  /\ thr[t].pc = "SetPadding"
  /\ PaddingSet(t, IF thr[t].op = "WriteFrame"
                   THEN NeedsRtpPadding(Len(thr[t].data)) ELSE thr[t].flag)
  /\ UNCHANGED <<call, sess, frame, wire, last, crashed, codec>>

\* the call of thread t takes the ciphertext-stealing path
ThreadCts(t) == UseCts(Len(thr[t].data), thr[t].flag)

\* the update step returned u
Updated(t, u) ==
  /\ eng' = WithCtx(eng, thr[t].op, u.ctx)
  /\ thr' = [Goes(t, "Final") EXCEPT ![t].out = u.out, ![t].updOk = u.ok]

StepUpdate(t) ==
  /\ thr[t].pc = "Update"
  /\ Updated(t, IF thr[t].op = "WriteFrame"
                THEN (IF ThreadCts(t)
                      THEN EVP_EncryptUpdate_cts(CtxOf(eng, thr[t].op),
                                                 thr[t].data)
                      ELSE EVP_EncryptUpdate(CtxOf(eng, thr[t].op),
                                             thr[t].data))
                ELSE (IF ThreadCts(t)
                      THEN EVP_DecryptUpdate_cts(CtxOf(eng, thr[t].op),
                                                 thr[t].data)
                      ELSE EVP_DecryptUpdate(CtxOf(eng, thr[t].op),
                                             thr[t].data)))
  /\ UNCHANGED <<call, sess, frame, wire, last, crashed, codec>>

\* the final step returned f: the call returns its buffer, which goes into
\* the caller's frame
Finalised(t, f) ==
  /\ eng' = WithCtx(eng, thr[t].op, f.ctx)
  /\ thr' = [Goes(t, "Done") EXCEPT ![t].out = @ \o f.out, ![t].finOk = f.ok]

StepFinal(t) ==
  /\ thr[t].pc = "Final"
  /\ Finalised(t, IF thr[t].op = "WriteFrame"
                  THEN (IF ThreadCts(t)
                        THEN EVP_EncryptFinal_cts(CtxOf(eng, thr[t].op))
                        ELSE EVP_EncryptFinal_ex(CtxOf(eng, thr[t].op)))
                  ELSE (IF ThreadCts(t)
                        THEN EVP_DecryptFinal_cts(CtxOf(eng, thr[t].op))
                        ELSE EVP_DecryptFinal_relaxed(CtxOf(eng, thr[t].op))))
  /\ UNCHANGED <<call, sess, frame, wire, last, crashed, codec>>

NextThreads ==
  \E t \in Threads :
    \/ StepSetIV(t)
    \/ StepSetPadding(t)
    \/ StepUpdate(t)
    \/ StepFinal(t)

SpecThreads == InitThreads /\ [][NextThreads]_vars

\* what the call of thread t returns when it runs alone on the engine e
RunOn(e, t) ==
  IF thr[t].op = "WriteFrame"
  THEN Encrypt(e, thr[t].data, NoSeq)
  ELSE Decrypt(e, thr[t].data, NoSeq, thr[t].flag)

\* the call of thread t returned what the call r returned
SameResult(t, r) ==
  /\ thr[t].out = r.out
  /\ thr[t].flag = r.rtpPadding
  /\ thr[t].updOk = r.updOk
  /\ thr[t].finOk = r.finOk

\* the result of thread t's call in the two sequential orders
RunsFirst(t) == RunOn(KeyedEngine(eng.oid), t)
RunsSecond(t) == RunOn(RunOn(KeyedEngine(eng.oid), Other(t)).eng, t)

\* C12: one WriteFrame and one ReadFrame running concurrently on a keyed
\* session are safe: in every interleaving of their steps, each call returns
\* what it returns when the two calls run one after the other.
C12_WriteReadSafe ==
  \A t \in Threads :
    (thr[t].op # thr[Other(t)].op /\ thr[t].pc = "Done") =>
      (SameResult(t, RunsFirst(t)) /\ SameResult(t, RunsSecond(t)))

\* a WriteFrame and a ReadFrame whose steps interleaved, both returned, one
\* of them through the ciphertext-stealing path
C12_Witness ==
  /\ thr[1].op # thr[2].op
  /\ \A t \in Threads : thr[t].pc = "Done" /\ thr[t].overlapped
  /\ \E t \in Threads : ThreadCts(t)
  /\ \A t \in Threads : SameResult(t, RunsFirst(t))

\* C13: two WriteFrame calls (or two ReadFrame calls) running concurrently
\* are not safe. When a call on the ciphertext-stealing path reaches its final
\* step after the other call of the same direction has reset the pending-final
\* block of the shared context, the final step fails and the call returns a
\* buffer that differs from what it returns in either sequential order.
C13_SameDirectionUnsafe ==
  [][\A t \in Threads :
       (/\ thr[t].op = thr[Other(t)].op
        /\ thr[t].pc = "Final"
        /\ ThreadCts(t)
        /\ ~CtxOf(eng, thr[t].op).final_used
        /\ StepFinal(t))
       => /\ ~thr'[t].finOk
          /\ thr'[t].out # RunsFirst(t).out
          /\ thr'[t].out # RunsSecond(t).out
    ]_vars

\* two calls of the same direction have returned, and one of them returned
\* a buffer it returns in neither sequential order
C13_Witness ==
  /\ thr[1].op = thr[2].op
  /\ \A t \in Threads : thr[t].pc = "Done"
  /\ \E t \in Threads :
       /\ thr[t].out # RunsFirst(t).out
       /\ thr[t].out # RunsSecond(t).out

(***************************************************************************)
(* Specification SpecKeys: one H235CryptoEngine constructed without a key, *)
(* on which SetKey and SetIV are called.                                   *)
(*   call  the last call: for SetKey the key handed in (data) and the      *)
(*         error reported (SetKey returns void: always "none"), for SetIV  *)
(*         the sequence (seq), the length (ivLen) and the IV written (out) *)
(***************************************************************************)
\* an algorithm OID that SetKey does not know (DES-EDE3-CBC)
OID_Other == "1.2.840.113549.3.7"

EngineOIDs == SupportedOIDs \cup {OID_Other}

\* keys of 8, 16, 24 and 32 bytes
SetKeyInputs ==
  {Pattern(l, a, 3) : l \in {KeyLen128 \div 2, KeyLen128, KeyLen192, KeyLen256},
                      a \in {160, 77}}

InitKeys ==
  /\ \E oid \in EngineOIDs : eng = NewEngine(oid)
  /\ call = NoCall
  /\ sess = <<>>
  /\ frame = NoFrame
  /\ wire = <<>>
  /\ last = NoOp
  /\ crashed = FALSE
  /\ thr = <<>>
  /\ codec = <<>>

\* SetKey(key): nothing is returned
SetKeyCall ==
  /\ \E key \in SetKeyInputs, beyond \in BeyondBytes :
       /\ eng' = SetKey(eng, key, beyond)
       /\ call' = [NoCall EXCEPT !.op = "SetKey", !.data = key]
  /\ UNCHANGED <<sess, frame, wire, last, crashed, thr, codec>>

\* SetIV(iv, ivSequence, ivLen): touches the caller's buffer only
SetIVCall ==
  /\ \E s \in IvSequences, L \in 0..MaxIvLen :
       call' = [NoCall EXCEPT !.op = "SetIV", !.seq = s, !.ivLen = L,
                              !.out = SetIV(s, L)]
  /\ UNCHANGED <<eng, sess, frame, wire, last, crashed, thr, codec>>

NextKeys == SetKeyCall \/ SetIVCall

SpecKeys == InitKeys /\ [][NextKeys]_vars

\* C14: SetKey validates its input. A SetKey call on an engine whose
\* algorithm is not recognised, or with a key whose length differs from the
\* algorithm's key length, reports an error (UnsupportedAlgorithm or
\* InvalidKeyLength) and leaves the key state of both contexts unchanged.
C14_SetKeyValidates ==
  [][(/\ call'.op = "SetKey"
      /\ \/ eng.oid \notin SupportedOIDs
         \/ Len(call'.data) # RandomKeySize(eng.oid))
     => /\ call'.err \in {"UnsupportedAlgorithm", "InvalidKeyLength"}
        /\ eng'.enc = eng.enc
        /\ eng'.dec = eng.dec
    ]_vars

\* C15: for an IV length L and a 6-byte sequence s, SetIV writes L bytes with
\* iv[i] = s[i mod 6] for every 0 <= i < L; with no sequence every one of the
\* L bytes is zero.
C15_IvDerivation ==
  call.op = "SetIV" =>
    /\ Len(call.out) = call.ivLen
    /\ \A i \in 0..(call.ivLen - 1) :
         call.out[i + 1] = IF call.seq = NoSeq
                           THEN 0
                           ELSE call.seq[(i % IV_SEQUENCE_LEN) + 1]

\* a block-sized IV made from a sequence: two whole copies and four bytes of
\* a third
C15_Witness ==
  /\ call.op = "SetIV"
  /\ call.seq # NoSeq
  /\ call.ivLen = BlockSize
  /\ call.out[BlockSize] = call.seq[BlockSize % IV_SEQUENCE_LEN]
  /\ call.out[BlockSize] # 0

\* what the last call returned
Returned ==
  [out |-> call.out, rtpPadding |-> call.flagOut, updOk |-> call.updOk,
   finOk |-> call.finOk]

\* what a call returned, without the engine it left
ResultOf(r) ==
  [out |-> r.out, rtpPadding |-> r.rtpPadding, updOk |-> r.updOk,
   finOk |-> r.finOk]

\* C16: the engine is stateless across calls. After every history of Encrypt
\* and Decrypt calls, a call returns the bytes, the flag and the step results
\* that the same call returns on an engine just constructed with the same key.
C16_Stateless ==
  /\ call.op = "Encrypt" =>
       Returned = ResultOf(Encrypt(KeyedEngine(eng.oid), call.data, call.seq))
  /\ call.op \in {"Decrypt", "DecryptPeer"} =>
       Returned = ResultOf(Decrypt(KeyedEngine(eng.oid), call.data, call.seq,
                                   call.flagIn))

\* an Encrypt of whole blocks made after an Encrypt and a Decrypt on the
\* ciphertext-stealing path: the decrypt context still holds the pending
\* block and the buffer of that Decrypt, as the encrypt context did when
\* this call began
C16_Witness ==
  /\ call.op = "Encrypt"
  /\ Len(call.data) % BlockSize = 0
  /\ Len(call.out) = Len(call.data)
  /\ eng.dec.final_used
  /\ eng.dec.buf # <<>>

(***************************************************************************)
(* Specification SpecCts: one EVP_CIPHER_CTX, keyed and given an IV, that  *)
(* is fed an input in chunks through the ciphertext-stealing update and    *)
(* then finished by the ciphertext-stealing final.                         *)
(*   codec.ctx     the context                                             *)
(*   codec.input   the whole input; codec.fed bytes of it have been fed    *)
(*   codec.out     what the calls wrote so far                             *)
(*   codec.ok      every update call returned 1                            *)
(*   codec.called, split, zero, edge   an update call was made; more than  *)
(*                 one; one with 0 bytes; one that ended on a block        *)
(*                 boundary                                                *)
(*   codec.plain   EVP_DecryptUpdate was called in between                 *)
(*   codec.fin     "none", or the outcome of the final call                *)
(***************************************************************************)
\* EVP_CIPHER_CTX_mode: the two modes the final steps handle, and another
CtsModes == {"CBC", "ECB", "OFB"}

CtsLengths == {k * BlockSize + d : k \in 1..MaxBlocks, d \in {0, 1, BlockSize - 1}}

CtsInputs == {Pattern(l, 3, 7) : l \in CtsLengths}

\* the context after Init_ex with a key, Init_ex with an IV and set_padding
CtsStart(mode, enc, pad) ==
  CtxSetPadding(
    CtxSetIV(CtxInit(OID_AES128, mode, enc, EngineKey(OID_AES128)), enc,
             SetIV(<<0, 1, 170, 187, 204, 221>>, BlockSize)),
    pad)

InitCts ==
  /\ \E mode \in CtsModes, enc \in BOOLEAN, pad \in BOOLEAN,
        input \in CtsInputs :
       codec = [ctx |-> CtsStart(mode, enc, pad), input |-> input, fed |-> 0,
                out |-> <<>>, ok |-> TRUE, called |-> FALSE, split |-> FALSE,
                zero |-> FALSE, edge |-> FALSE, plain |-> FALSE,
                fin |-> "none"]
  /\ eng = NewEngine(OID_AES128)
  /\ call = NoCall
  /\ sess = <<>>
  /\ frame = NoFrame
  /\ wire = <<>>
  /\ last = NoOp
  /\ crashed = FALSE
  /\ thr = <<>>

\* the sizes a chunk of an input with 'left' bytes to go can have
ChunkSizes(left) == 0..left

\* the next n bytes of the input
Chunk(n) == SubSeq(codec.input, codec.fed + 1, codec.fed + n)

\* the codec after an update call on n more bytes returned r
Fed(n, r, plain) ==
  [codec EXCEPT !.ctx = r.ctx, !.fed = @ + n, !.out = @ \o r.out,
                !.ok = @ /\ r.ok, !.called = TRUE,
                !.split = @ \/ codec.called,
                !.zero = @ \/ n = 0,
                !.edge = @ \/ (n > 0 /\ (codec.fed + n) % BlockSize = 0),
                !.plain = @ \/ plain]

\* the cipher of a context in a mode other than CBC and ECB is not modelled:
\* such a context is fed no more than the two blocks that the update step
\* keeps without calling the cipher
NoCipherNeeded(n) ==
  codec.ctx.mode \in {"CBC", "ECB"} \/ codec.fed + n <= 2 * BlockSize

\* EVP_EncryptUpdate_cts / EVP_DecryptUpdate_cts on the next n bytes
UpdateChunk ==
  /\ codec.fin = "none"
  /\ \E n \in ChunkSizes(Len(codec.input) - codec.fed) :
       /\ NoCipherNeeded(n)
       /\ codec' = Fed(n, IF codec.ctx.encrypt
                          THEN EVP_EncryptUpdate_cts(codec.ctx, Chunk(n))
                          ELSE EVP_DecryptUpdate_cts(codec.ctx, Chunk(n)),
                       FALSE)
  /\ UNCHANGED <<eng, call, sess, frame, wire, last, crashed, thr>>

\* EVP_DecryptUpdate on the next block
PlainUpdate ==
  /\ codec.fin = "none"
  /\ codec.ctx.mode \in {"CBC", "ECB"}
  /\ BlockSize <= Len(codec.input) - codec.fed
  /\ codec' = Fed(BlockSize, EVP_DecryptUpdate(codec.ctx, Chunk(BlockSize)),
                  TRUE)
  /\ UNCHANGED <<eng, call, sess, frame, wire, last, crashed, thr>>

\* the codec after the final call returned r
Finished(r) ==
  [codec EXCEPT !.ctx = r.ctx, !.out = @ \o r.out,
                !.fin = IF r.ok THEN "ok" ELSE "fail"]

\* EVP_EncryptFinal_cts / EVP_DecryptFinal_cts
FinalCts ==
  /\ codec.fin = "none"
  /\ codec' = Finished(IF codec.ctx.encrypt
                       THEN EVP_EncryptFinal_cts(codec.ctx)
                       ELSE EVP_DecryptFinal_cts(codec.ctx))
  /\ UNCHANGED <<eng, call, sess, frame, wire, last, crashed, thr>>

NextCts == UpdateChunk \/ PlainUpdate \/ FinalCts

SpecCts == InitCts /\ [][NextCts]_vars

\* C17: starting from a reset codec state, after any sequence of
\* ciphertext-stealing update calls with total input length T: if T <= B,
\* nothing has been written, no pending-final block exists and the buffer
\* holds exactly the T input bytes; if T > B, a pending-final block exists and
\* the buffer holds between 1 and B bytes.
C17_UpdateInvariant ==
  (codec.fin = "none" /\ ~codec.plain) =>
    /\ codec.ok
    /\ codec.fed <= BlockSize =>
         /\ codec.out = <<>>
         /\ ~codec.ctx.final_used
         /\ codec.ctx.buf = Take(codec.input, codec.fed)
    /\ codec.fed > BlockSize =>
         /\ codec.ctx.final_used
         /\ Len(codec.ctx.buf) \in 1..BlockSize

\* more than two blocks fed in several update calls, one of which ended on a
\* block boundary: a block went out, a block is pending and the buffer holds
\* the bytes that follow it
C17_Witness ==
  /\ codec.fin = "none"
  /\ ~codec.plain
  /\ codec.split
  /\ codec.edge
  /\ codec.fed > 2 * BlockSize
  /\ codec.ctx.final_used
  /\ codec.ctx.buf = Drop(codec.input, 2 * BlockSize)
  /\ Len(codec.out) = BlockSize

\* C18: the encode and the decode final step, called when no pending-final
\* block exists or when the buffer is empty, fail, write zero bytes and leave
\* the codec state unchanged; called in a mode other than ECB or CBC they
\* fail and write zero bytes.
C18_FinalPrecondition ==
  [][(codec.fin = "none" /\ codec'.fin # "none") =>
       /\ (~codec.ctx.final_used \/ codec.ctx.buf = <<>>) =>
            /\ codec'.fin = "fail"
            /\ codec'.out = codec.out
            /\ codec'.ctx = codec.ctx
       /\ codec.ctx.mode \notin {"ECB", "CBC"} =>
            /\ codec'.fin = "fail"
            /\ codec'.out = codec.out
    ]_vars

\* a decode final step that failed on a context with no pending-final block
\* and a buffer that is not empty
C18_Witness ==
  /\ codec.fin = "fail"
  /\ ~codec.ctx.encrypt
  /\ ~codec.ctx.final_used
  /\ codec.ctx.buf # <<>>
  /\ codec.out = <<>>

\* what one update call with the whole input, then the final call, write
WholeWritten(u, f) == [out |-> u.out \o f.out, ok |-> u.ok /\ f.ok]

WholeFinal(enc, u) ==
  WholeWritten(u, IF enc THEN EVP_EncryptFinal_cts(u.ctx)
                         ELSE EVP_DecryptFinal_cts(u.ctx))

Whole(c0, input) ==
  WholeFinal(c0.encrypt, IF c0.encrypt THEN EVP_EncryptUpdate_cts(c0, input)
                                       ELSE EVP_DecryptUpdate_cts(c0, input))

\* C20: for a fixed key, IV and mode (CBC or ECB) and an input of length
\* T > B, every split of the input into update calls followed by one final
\* call writes the bytes that a single update call with the whole input
\* followed by the final call writes, and these are exactly T bytes.
C20_ChunkingIndependence ==
  (/\ codec.fin # "none"
   /\ ~codec.plain
   /\ codec.ctx.mode \in {"CBC", "ECB"}
   /\ codec.fed = Len(codec.input)
   /\ Len(codec.input) > BlockSize)
  => /\ codec.fin = "ok"
     /\ Len(codec.out) = Len(codec.input)
     /\ codec.out = Whole(CtsStart(codec.ctx.mode, codec.ctx.encrypt,
                                   ~codec.ctx.nopad), codec.input).out

\* an input of more than two blocks, fed in several chunks of which one was
\* empty and one ended on a block boundary, then finished
C20_Witness ==
  /\ codec.fin = "ok"
  /\ ~codec.plain
  /\ codec.split
  /\ codec.zero
  /\ codec.edge
  /\ codec.fed = Len(codec.input)
  /\ Len(codec.input) > 2 * BlockSize
  /\ Len(codec.out) = Len(codec.input)

\* C19: WriteFrame updates the frame in place including its padding flag.
\* After WriteFrame on a keyed session the frame's payload is the ciphertext
\* and its padding flag is the rtpPadding value that Encrypt reported for the
\* payload (true exactly when the payload was shorter than one block).
C19_WriteFrameSetsPadding ==
  [][(/\ Keyed(sess["master"].m_context)
      /\ frame.hist = <<>>
      /\ frame'.hist = <<"WriteFrame">>)
     => /\ frame'.payload =
             Encrypt(sess["master"].m_context, frame.payload, NoSeq).out
        /\ frame'.padding =
             Encrypt(sess["master"].m_context, frame.payload, NoSeq).rtpPadding
        /\ frame'.padding = (Len(frame.payload) < BlockSize)
    ]_vars

=============================================================================
